---- MODULE Spec2Model ----
(***************************************************************************)
(* Model of src/app.py, the Streamlit text analyzer and rephraser.         *)
(*                                                                         *)
(* Two kinds of behaviour are modelled:                                    *)
(*   - script runs of the application (pc = "config", "login", "handler"): *)
(*     Streamlit re-executes the script top to bottom on every user        *)
(*     interaction; the st.cache_data caches survive from run to run;      *)
(*   - direct calls of the two decorated functions analyze_toxicity and    *)
(*     rephrase_text_api on inputs drawn from bounded sets                 *)
(*     (pc = "fn_ready", "fn_done").                                       *)
(*                                                                         *)
(* Representation.                                                         *)
(*   - A score is a fixed-point number in thousandths: 600 is 0.6 and      *)
(*     1000 is 1.0; toxicity_score is kept in the same unit.               *)
(*   - Python None / a present value x are <<>> / <<x>>.                   *)
(*   - Opaque Python strings (the text, keys, tokens, the messages of      *)
(*     analyze_toxicity) are TLA+ strings, "" being the empty string.      *)
(*   - Strings the code inspects (JSON contents, the value returned by     *)
(*     rephrase_text_api) are sequences of atoms; the atom " " is          *)
(*     whitespace.                                                         *)
(*   - A JSON value is a record tagged by t: "str", "num", "null", "bool", *)
(*     "list" or "rec".                                                    *)
(***************************************************************************)
EXTENDS Integers, Sequences, FiniteSets, TLC

VARIABLES pc, HUGGING_FACE_TOKEN, PERSPECTIVE_API_KEY, enable_rephrasing,
          authenticated_hf, text_to_analyze, analyze_button,
          toxCache, rephCache, calls, toxicity_results, rephrased, ui,
          modResp, infResp

vars == <<pc, HUGGING_FACE_TOKEN, PERSPECTIVE_API_KEY, enable_rephrasing,
          authenticated_hf, text_to_analyze, analyze_button,
          toxCache, rephCache, calls, toxicity_results, rephrased, ui,
          modResp, infResp>>

(***************************************************************************)
(* Bounds and input sets                                                   *)
(***************************************************************************)
NumTexts == 2

Texts == {""} \cup {"text" \o ToString(i) : i \in 1..NumTexts}

Keys == {"", "pk"}

Tokens == {"", "hf"}

None == <<>>

Some(x) == <<x>>

NoResult == [none |-> TRUE]

NoResp == [kind |-> "none"]

Unset == [set |-> FALSE]

EmptyCache == [k \in {} |-> NoResult]

(***************************************************************************)
(* JSON values and Python's str(), repr(), str.strip(), `in`               *)
(***************************************************************************)
JStr(s) == [t |-> "str", s |-> s]

JNum(n) == [t |-> "num", n |-> n]

JNull == [t |-> "null"]

JBool(b) == [t |-> "bool", b |-> b]

JList(items) == [t |-> "list", items |-> items]

JRec(keys, vals) == [t |-> "rec", keys |-> keys, vals |-> vals]

RECURSIVE PyRepr(_)
RECURSIVE ReprItems(_)
RECURSIVE ReprPairs(_, _)

ReprItems(items) ==
    IF Len(items) = 0 THEN <<>>
    ELSE IF Len(items) = 1 THEN PyRepr(items[1])
    ELSE PyRepr(items[1]) \o <<",", " ">> \o ReprItems(Tail(items))

ReprPairs(keys, vals) ==
    IF Len(keys) = 0 THEN <<>>
    ELSE LET one == <<"'", keys[1], "'", ":", " ">> \o PyRepr(vals[1])
         IN IF Len(keys) = 1 THEN one
            ELSE one \o <<",", " ">> \o ReprPairs(Tail(keys), Tail(vals))

PyRepr(j) ==
    CASE j.t = "str"  -> <<"'">> \o j.s \o <<"'">>
      [] j.t = "num"  -> <<ToString(j.n)>>
      [] j.t = "null" -> <<"None">>
      [] j.t = "bool" -> IF j.b THEN <<"True">> ELSE <<"False">>
      [] j.t = "list" -> <<"[">> \o ReprItems(j.items) \o <<"]">>
      [] j.t = "rec"  -> <<"{">> \o ReprPairs(j.keys, j.vals) \o <<"}">>

PyStr(j) == IF j.t = "str" THEN j.s ELSE PyRepr(j)

RECURSIVE LStrip(_)
LStrip(s) == IF Len(s) > 0 /\ s[1] = " " THEN LStrip(Tail(s)) ELSE s

RECURSIVE RStrip(_)
RStrip(s) ==
    IF Len(s) > 0 /\ s[Len(s)] = " " THEN RStrip(SubSeq(s, 1, Len(s) - 1)) ELSE s

Strip(s) == RStrip(LStrip(s))

Ok(v) == [ok |-> TRUE, v |-> v]

\* A raised exception: its class, str(e), and e.response (None or the status).
Exc(type, msg) == [ok |-> FALSE, type |-> type, msg |-> msg, response |-> None]

HTTPError(status) ==
    [ok |-> FALSE, type |-> "HTTPError", msg |-> ToString(status) \o " Error",
     response |-> Some(status)]

\* requests.exceptions: Timeout, ConnectionError and HTTPError derive from
\* RequestException.
IsRequestException(e) == e.type \in {"Timeout", "ConnectionError", "HTTPError"}

IsTimeout(e) == e.type = "Timeout"

\* "generated_text" in x
PyContains(x) ==
    CASE x.t = "rec"  -> Ok(\E i \in 1..Len(x.keys) : x.keys[i] = "generated_text")
      [] x.t = "str"  -> Ok(\E i \in 1..Len(x.s) : x.s[i] = "generated_text")
      [] x.t = "list" ->
            Ok(\E i \in 1..Len(x.items) : x.items[i] = JStr(<<"generated_text">>))
      [] OTHER -> Exc("TypeError", "argument is not iterable")

\* x["generated_text"]
PyGetItem(x) ==
    IF x.t = "rec" /\ \E i \in 1..Len(x.keys) : x.keys[i] = "generated_text"
    THEN Ok(x.vals[CHOOSE i \in 1..Len(x.keys) : x.keys[i] = "generated_text"])
    ELSE IF x.t = "rec" THEN Exc("KeyError", "'generated_text'")
    ELSE Exc("TypeError", "indices must be integers")

\* v.strip()
PyStripMethod(v) ==
    IF v.t = "str" THEN Ok(Strip(v.s))
    ELSE Exc("AttributeError", "object has no attribute 'strip'")

(***************************************************************************)
(* What the network answers to a request                                   *)
(***************************************************************************)
RespTimeout == [kind |-> "timeout"]

RespConnErr == [kind |-> "connerr"]

Http(status, body) == [kind |-> "http", status |-> status, body |-> body]

ScoreBody(s) == [kind |-> "score", value |-> s]

MalformedBody == [kind |-> "malformed"]

\* requests.post(...) followed by response.raise_for_status()
PostAndRaiseForStatus(resp) ==
    CASE resp.kind = "timeout" -> Exc("Timeout", "timed out")
      [] resp.kind = "connerr" -> Exc("ConnectionError", "connection failed")
      [] resp.kind = "http" /\ resp.status >= 400 /\ resp.status < 600 ->
            HTTPError(resp.status)
      [] OTHER -> Ok(resp.body)

(***************************************************************************)
(* analyze_toxicity                                                        *)
(***************************************************************************)
Threshold == 600

Percent == 100

IsToxicAtThreshold(score) == score >= Threshold

IsToxic(score) == score > Threshold

UnscaledScore(score) == score

ToxicityScore(score) == score * Percent

ErrorResult(msg) == [is_toxic |-> None, toxicity_score |-> None, error |-> msg]

\* The try block, lines 82-92.
TryAnalyze(resp) ==
    LET posted == PostAndRaiseForStatus(resp)
    IN IF ~posted.ok THEN posted
       ELSE IF posted.v.kind # "score" THEN Exc("KeyError", "'attributeScores'")
       ELSE LET score == posted.v.value
            IN Ok([raw_score |-> score,
                   toxicity_score |-> Some(ToxicityScore(score)),
                   is_toxic |-> Some(IsToxic(score))])

RequestErrorResult(e) ==
    ErrorResult(
        IF e.response # None /\ e.response[1] = 400
        THEN "API Error (400): Bad Request (Check Key?)"
        ELSE IF e.response # None /\ e.response[1] = 403
        THEN "API Error (403): Forbidden (Check API Enabled/Perms?)"
        ELSE "API Request Error: " \o e.msg)

AnalyzeExceptNoTimeoutClause(e) ==
    IF IsRequestException(e) THEN RequestErrorResult(e)
    ELSE ErrorResult("Processing Error: " \o e.msg)

\* The except clauses, in the order the code lists them.
AnalyzeExcept(e) ==
    IF IsTimeout(e) THEN ErrorResult("API Request Timed Out")
    ELSE IF IsRequestException(e) THEN RequestErrorResult(e)
    ELSE ErrorResult("Processing Error: " \o e.msg)

AnalyzeAfterKeyCheck(resp) ==
    LET t == TryAnalyze(resp)
    IN [value |-> IF t.ok THEN t.v ELSE AnalyzeExcept(t),
        requests |-> <<"moderation">>, resp |-> resp]

AnalyzeRetrying(text, api_key, resp) ==
    IF api_key = ""
    THEN [value |-> ErrorResult("API Key missing"), requests |-> <<>>, resp |-> NoResp]
    ELSE LET r == AnalyzeAfterKeyCheck(resp)
         IN IF r.value.is_toxic = None
            THEN [r EXCEPT !.requests = <<"moderation", "moderation">>]
            ELSE r

AnalyzeNoKeyCheck(text, api_key, resp) == AnalyzeAfterKeyCheck(resp)

\* The undecorated function: the value it returns, the requests it issues and
\* the answer it received (NoResp when it issued none).
analyze_toxicity_body(text, api_key, resp) ==
    IF api_key = ""
    THEN [value |-> ErrorResult("API Key missing"), requests |-> <<>>, resp |-> NoResp]
    ELSE AnalyzeAfterKeyCheck(resp)

(***************************************************************************)
(* rephrase_text_api                                                       *)
(***************************************************************************)
MsgUnavailable == <<"Rephrasing not available (authentication missing).">>

MsgTimeout == <<"Error: Request to Hugging Face API timed out.">>

MsgLoading == <<"Model is currently loading. Please try again in a moment.">>

\* Lines 134-141.
ParseGenerated(result) ==
    IF result.t = "list" /\ Len(result.items) > 0
    THEN LET first == result.items[1]
             has == PyContains(first)
         IN IF ~has.ok THEN has
            ELSE IF has.v
            THEN LET g == PyGetItem(first)
                 IN IF ~g.ok THEN g ELSE PyStripMethod(g.v)
            ELSE Ok(Strip(PyStr(first)))
    ELSE Ok(Strip(PyStr(result)))

TryRephrase(resp) ==
    LET posted == PostAndRaiseForStatus(resp)
    IN IF ~posted.ok THEN posted ELSE ParseGenerated(posted.v)

IsModelLoadingAny5xx(e) == e.response # None /\ e.response[1] >= 500

IsModelLoading(e) == e.response # None /\ e.response[1] = 503

RephraseExceptNoTimeoutClause(e) ==
    IF IsRequestException(e)
    THEN IF IsModelLoading(e) THEN MsgLoading ELSE <<"API Error:", " ", e.msg>>
    ELSE <<"Error during rephrasing:", " ", e.msg>>

RephraseExcept(e) ==
    IF IsTimeout(e) THEN MsgTimeout
    ELSE IF IsRequestException(e)
    THEN IF IsModelLoading(e) THEN MsgLoading ELSE <<"API Error:", " ", e.msg>>
    ELSE <<"Error during rephrasing:", " ", e.msg>>

\* The undecorated function; auth is the module-level authenticated_hf it reads.
rephrase_text_api_body(text, hf_token, auth, resp) ==
    IF hf_token = "" \/ ~auth
    THEN [value |-> MsgUnavailable, requests |-> <<>>, resp |-> NoResp]
    ELSE LET t == TryRephrase(resp)
         IN [value |-> IF t.ok THEN t.v ELSE RephraseExcept(t),
             requests |-> <<"inference">>, resp |-> resp]

(***************************************************************************)
(* @st.cache_data: memoization on the call's arguments                     *)
(***************************************************************************)
CacheDisabled(cache, args, r) ==
    [value |-> r.value, cache |-> cache, requests |-> r.requests, resp |-> r.resp]

st_cache_data(cache, args, r) ==
    IF args \in DOMAIN cache
    THEN [value |-> cache[args], cache |-> cache, requests |-> <<>>, resp |-> NoResp]
    ELSE [value |-> r.value, cache |-> (args :> r.value) @@ cache,
          requests |-> r.requests, resp |-> r.resp]

analyze_toxicity(cache, text, api_key, resp) ==
    st_cache_data(cache, <<text, api_key>>, analyze_toxicity_body(text, api_key, resp))

rephrase_text_api(cache, text, hf_token, auth, resp) ==
    st_cache_data(cache, <<text, hf_token>>,
                  rephrase_text_api_body(text, hf_token, auth, resp))

(***************************************************************************)
(* Network answers the model draws from                                    *)
(***************************************************************************)
Scores == 0..1000

FnModResponses ==
    {RespTimeout, RespConnErr, Http(200, MalformedBody)}
    \cup {Http(st, MalformedBody) : st \in {400, 403, 500}}
    \cup {Http(200, ScoreBody(v)) : v \in Scores}

AppModResponses ==
    {RespTimeout, Http(200, ScoreBody(600)), Http(200, ScoreBody(601))}

GeneratedBody == JList(<<JRec(<<"generated_text">>, <<JStr(<<" ", "polite", " ">>)>>)>>)

FnInfBodies ==
    {GeneratedBody,
     JList(<<JRec(<<"generated_text">>, <<JNum(5)>>)>>),
     JList(<<JRec(<<"summary_text">>, <<JStr(<<"polite">>)>>)>>),
     JList(<<JStr(<<" ", "polite">>)>>),
     JList(<<JStr(<<"no", "generated_text", "here">>)>>),
     JList(<<JNum(42)>>),
     JList(<<JNull>>),
     JList(<<JBool(TRUE)>>),
     JList(<<JList(<<JStr(<<"polite">>), JNum(1)>>)>>),
     JList(<<JList(<<JStr(<<"generated_text">>)>>)>>),
     JList(<<>>),
     JRec(<<"error">>, <<JStr(<<"oops">>)>>)}

FnInfResponses ==
    {RespTimeout, RespConnErr}
    \cup {Http(st, JNull) : st \in {404, 500, 503}}
    \cup {Http(200, b) : b \in FnInfBodies}

AppInfResponses == {RespTimeout, Http(503, JNull), Http(200, GeneratedBody)}

(***************************************************************************)
(* Script runs                                                             *)
(***************************************************************************)
\* os.environ.get, then st.secrets.get, then st.text_input (lines 25-47).
ResolveCredential(env, secret, input) ==
    IF env # "" THEN env ELSE IF secret # "" THEN secret ELSE input

CredentialNotice(name, env, secret) ==
    IF env # "" THEN <<name \o " loaded from environment">>
    ELSE IF secret # "" THEN <<name \o " loaded from secrets">>
    ELSE <<>>

InitApp ==
    /\ pc = "config"
    /\ HUGGING_FACE_TOKEN = ""
    /\ PERSPECTIVE_API_KEY = ""
    /\ enable_rephrasing = FALSE
    /\ authenticated_hf = FALSE
    /\ text_to_analyze = ""
    /\ analyze_button = FALSE
    /\ toxCache = EmptyCache
    /\ rephCache = EmptyCache
    /\ calls = <<>>
    /\ toxicity_results = NoResult
    /\ rephrased = Unset
    /\ ui = <<>>
    /\ modResp = NoResp
    /\ infResp = NoResp

\* The value and the notice one credential can end up with, over every content
\* of the environment, the secrets store and the text input.
CredentialOutcomes(name, values) ==
    {[value |-> ResolveCredential(env, secret, input),
      notice |-> CredentialNotice(name, env, secret)] :
        env \in values, secret \in values, input \in values}

\* Stage 1, lines 20-50: a new run of the script starts and resolves the
\* credentials and the checkbox.
Configure ==
    /\ pc = "config"
    /\ \E token \in CredentialOutcomes("Hugging Face Token", Tokens),
          key \in CredentialOutcomes("Perspective API Key", Keys),
          checkbox \in BOOLEAN :
          /\ HUGGING_FACE_TOKEN' = token.value
          /\ PERSPECTIVE_API_KEY' = key.value
          /\ enable_rephrasing' = checkbox
          /\ ui' = token.notice \o key.notice
    /\ authenticated_hf' = FALSE
    /\ text_to_analyze' = ""
    /\ analyze_button' = FALSE
    /\ calls' = <<>>
    /\ toxicity_results' = NoResult
    /\ rephrased' = Unset
    /\ modResp' = NoResp
    /\ infResp' = NoResp
    /\ pc' = "login"
    /\ UNCHANGED <<toxCache, rephCache>>

LoginKeepsRephrasing(token, enable, whoamiOk) ==
    IF token # ""
    THEN [auth |-> whoamiOk, enable |-> enable, requests |-> <<"whoami">>,
          notice |-> IF whoamiOk THEN "Hugging Face authentication successful"
                     ELSE "Hugging Face authentication failed"]
    ELSE [auth |-> FALSE, enable |-> FALSE, requests |-> <<>>,
          notice |-> IF enable THEN "Rephrasing enabled, but HF Token is missing"
                     ELSE ""]

\* Lines 53-69: what the login stage leaves in authenticated_hf and
\* enable_rephrasing, and the request it issues (HfApi.whoami).
LoginOutcome(token, enable, whoamiOk) ==
    IF token # ""
    THEN IF whoamiOk
         THEN [auth |-> TRUE, enable |-> enable, requests |-> <<"whoami">>,
               notice |-> "Hugging Face authentication successful"]
         ELSE [auth |-> FALSE, enable |-> FALSE, requests |-> <<"whoami">>,
               notice |-> "Hugging Face authentication failed"]
    ELSE [auth |-> FALSE, enable |-> FALSE, requests |-> <<>>,
          notice |-> IF enable THEN "Rephrasing enabled, but HF Token is missing"
                     ELSE ""]

Login ==
    /\ pc = "login"
    /\ \E whoamiOk \in BOOLEAN :
          LET o == LoginOutcome(HUGGING_FACE_TOKEN, enable_rephrasing, whoamiOk)
          IN /\ authenticated_hf' = o.auth
             /\ enable_rephrasing' = o.enable
             /\ calls' = calls \o o.requests
             /\ ui' = IF o.notice = "" THEN ui ELSE Append(ui, o.notice)
    /\ pc' = "handler"
    /\ UNCHANGED <<HUGGING_FACE_TOKEN, PERSPECTIVE_API_KEY, text_to_analyze,
                   analyze_button, toxCache, rephCache, toxicity_results,
                   rephrased, modResp, infResp>>

RephraseWheneverEnabled(is_toxic, enable, auth) == enable /\ auth

\* Line 181.
ShouldRephrase(is_toxic, enable, auth) == is_toxic /\ enable /\ auth

\* Line 186.
ShouldWarnAuthFailed(is_toxic, enable, auth) == is_toxic /\ enable /\ ~auth

\* Lines 174-195: what the handler does with the moderation result a.
ShowResults(a, text, iresp) ==
    IF a.value.is_toxic # None
    THEN LET is_toxic == a.value.is_toxic[1]
             insight == IF is_toxic THEN "Insight: Toxic content detected."
                        ELSE "Insight: Content appears non-toxic."
             shown == <<IF is_toxic THEN "Toxic? Yes" ELSE "Toxic? No", "Score">>
         IN IF ShouldRephrase(is_toxic, enable_rephrasing, authenticated_hf)
            THEN LET r == rephrase_text_api(rephCache, text, HUGGING_FACE_TOKEN,
                                            authenticated_hf, iresp)
                 IN [rephrased |-> [set |-> TRUE, v |-> r.value],
                     rephCache |-> r.cache, requests |-> r.requests,
                     infResp |-> r.resp,
                     ui |-> shown \o <<"Rephrased Version", insight>>]
            ELSE [rephrased |-> Unset, rephCache |-> rephCache, requests |-> <<>>,
                  infResp |-> NoResp,
                  ui |-> shown
                         \o (IF ShouldWarnAuthFailed(is_toxic, enable_rephrasing,
                                                     authenticated_hf)
                             THEN <<"Rephrasing was enabled but Hugging Face authentication failed.">>
                             ELSE <<>>)
                         \o <<insight>>]
    ELSE [rephrased |-> Unset, rephCache |-> rephCache, requests |-> <<>>,
          infResp |-> NoResp, ui |-> <<"Status: " \o a.value.error>>]

\* Lines 160-198: what one run of the handler leaves behind, given the widget
\* values and the answers the network gives to the requests it issues.
HandlerOutcome(text, button, mresp, iresp) ==
    IF button /\ text # "" /\ PERSPECTIVE_API_KEY # ""
    THEN LET a == analyze_toxicity(toxCache, text, PERSPECTIVE_API_KEY, mresp)
             s == ShowResults(a, text, iresp)
         IN [text |-> text, button |-> button,
             toxicity_results |-> a.value, toxCache |-> a.cache, modResp |-> a.resp,
             rephrased |-> s.rephrased, rephCache |-> s.rephCache,
             infResp |-> s.infResp, requests |-> a.requests \o s.requests,
             ui |-> s.ui]
    ELSE [text |-> text, button |-> button,
          toxicity_results |-> toxicity_results, toxCache |-> toxCache,
          modResp |-> modResp, rephrased |-> rephrased, rephCache |-> rephCache,
          infResp |-> infResp, requests |-> <<>>,
          ui |-> IF button /\ text # ""
                 THEN <<"Perspective API Key is missing. Cannot perform toxicity analysis.">>
                 ELSE IF button
                 THEN <<"Please enter some text to analyze.">>
                 ELSE <<>>]

\* Stage 3, lines 156-198: the widgets deliver the text and the button state,
\* and the handler runs to the end of the script.
Handler ==
    /\ pc = "handler"
    /\ \E o \in {HandlerOutcome(text, button, mresp, iresp) :
                    text \in Texts, button \in BOOLEAN,
                    mresp \in AppModResponses, iresp \in AppInfResponses} :
          /\ text_to_analyze' = o.text
          /\ analyze_button' = o.button
          /\ toxicity_results' = o.toxicity_results
          /\ toxCache' = o.toxCache
          /\ modResp' = o.modResp
          /\ rephrased' = o.rephrased
          /\ rephCache' = o.rephCache
          /\ infResp' = o.infResp
          /\ calls' = calls \o o.requests
          /\ ui' = ui \o o.ui
    /\ pc' = "config"
    /\ UNCHANGED <<HUGGING_FACE_TOKEN, PERSPECTIVE_API_KEY, enable_rephrasing,
                   authenticated_hf>>

(***************************************************************************)
(* Direct calls of the two functions                                       *)
(***************************************************************************)
InitFn ==
    /\ pc = "fn_ready"
    /\ HUGGING_FACE_TOKEN \in Tokens
    /\ PERSPECTIVE_API_KEY \in Keys
    /\ enable_rephrasing = FALSE
    /\ authenticated_hf \in BOOLEAN
    /\ text_to_analyze \in Texts
    /\ analyze_button = FALSE
    /\ toxCache = EmptyCache
    /\ rephCache = EmptyCache
    /\ calls = <<>>
    /\ toxicity_results = NoResult
    /\ rephrased = Unset
    /\ ui = <<>>
    /\ modResp = NoResp
    /\ infResp = NoResp

FnAnalyze ==
    /\ pc = "fn_ready"
    /\ \E mresp \in FnModResponses :
          LET a == analyze_toxicity(toxCache, text_to_analyze, PERSPECTIVE_API_KEY, mresp)
          IN /\ toxicity_results' = a.value
             /\ toxCache' = a.cache
             /\ modResp' = a.resp
             /\ calls' = calls \o a.requests
    /\ pc' = "fn_done"
    /\ UNCHANGED <<HUGGING_FACE_TOKEN, PERSPECTIVE_API_KEY, enable_rephrasing,
                   authenticated_hf, text_to_analyze, analyze_button, rephCache,
                   rephrased, ui, infResp>>

FnRephrase ==
    /\ pc = "fn_ready"
    /\ \E iresp \in FnInfResponses :
          LET r == rephrase_text_api(rephCache, text_to_analyze, HUGGING_FACE_TOKEN,
                                     authenticated_hf, iresp)
          IN /\ rephrased' = [set |-> TRUE, v |-> r.value]
             /\ rephCache' = r.cache
             /\ infResp' = r.resp
             /\ calls' = calls \o r.requests
    /\ pc' = "fn_done"
    /\ UNCHANGED <<HUGGING_FACE_TOKEN, PERSPECTIVE_API_KEY, enable_rephrasing,
                   authenticated_hf, text_to_analyze, analyze_button, toxCache,
                   toxicity_results, ui, modResp>>

Init == InitApp \/ InitFn

Next == Configure \/ Login \/ Handler \/ FnAnalyze \/ FnRephrase

Spec == Init /\ [][Next]_vars

(***************************************************************************)
(* Properties                                                              *)
(***************************************************************************)
InUi(m) == \E i \in 1..Len(ui) : ui[i] = m

InCalls(c) == \E i \in 1..Len(calls) : calls[i] = c

ScoreReturned ==
    /\ modResp.kind = "http"
    /\ modResp.status = 200
    /\ modResp.body.kind = "score"

\* C1: whenever the moderation endpoint returned a score in [0,1], the is_toxic
\* field of the result equals (score > 0.6); a score of exactly 0.6 gives false.
C1_ToxicIffAboveThreshold ==
    ScoreReturned => toxicity_results.is_toxic = <<modResp.body.value > 600>>

C1_ScoreAtThresholdNotToxic ==
    /\ ScoreReturned
    /\ modResp.body.value = 600
    /\ toxicity_results.is_toxic = <<FALSE>>

AfterAnalyzeCallWithoutKey ==
    pc = "fn_done" /\ toxicity_results # NoResult /\ PERSPECTIVE_API_KEY = ""

AfterPressWithoutKey ==
    pc = "config" /\ analyze_button /\ PERSPECTIVE_API_KEY = ""

MissingKeyResult ==
    /\ toxicity_results = [is_toxic |-> <<>>, toxicity_score |-> <<>>,
                           error |-> "API Key missing"]
    /\ calls = <<>>

MissingKeyReported ==
    InUi("Perspective API Key is missing. Cannot perform toxicity analysis.")

\* C2 as stated: analyze_toxicity with an empty key returns the 'API Key
\* missing' result without a request, and a press of Analyze with an empty
\* Perspective key reports the missing key and makes no network call at all
\* (read for a press on a non-empty text, the only one the handler acts on).
C2_NoNetworkCallWithoutKey ==
    /\ AfterAnalyzeCallWithoutKey => MissingKeyResult
    /\ AfterPressWithoutKey /\ text_to_analyze # "" =>
          MissingKeyReported /\ calls = <<>>

\* C2 amended: analyze_toxicity with an empty key returns the 'API Key missing'
\* result without a request; a press of Analyze with a non-empty text and an
\* empty Perspective key reports the missing key and makes no moderation and
\* no inference call: the only request of that run is the Hugging Face token
\* check, made exactly when a token is configured.
C2_NoModerationCallWithoutKey ==
    /\ AfterAnalyzeCallWithoutKey => MissingKeyResult
    /\ AfterPressWithoutKey /\ text_to_analyze # "" =>
          /\ MissingKeyReported
          /\ calls = IF HUGGING_FACE_TOKEN # "" THEN <<"whoami">> ELSE <<>>
          /\ modResp = NoResp
          /\ infResp = NoResp
          /\ toxicity_results = NoResult

C2_PressWithoutKeyChecksToken ==
    /\ AfterPressWithoutKey
    /\ text_to_analyze # ""
    /\ MissingKeyReported
    /\ calls = <<"whoami">>

\* C3: a timeout of the moderation request makes analyze_toxicity return the
\* result with is_toxic = None and error 'API Request Timed Out'; a timeout of
\* the inference request makes rephrase_text_api return its timeout message.
C3_TimeoutReturnsClassifiedError ==
    /\ modResp.kind = "timeout" =>
          toxicity_results = [is_toxic |-> <<>>, toxicity_score |-> <<>>,
                              error |-> "API Request Timed Out"]
    /\ infResp.kind = "timeout" =>
          rephrased = [set |-> TRUE,
                       v |-> <<"Error: Request to Hugging Face API timed out.">>]

C3_ModerationTimedOut ==
    /\ modResp.kind = "timeout"
    /\ toxicity_results # NoResult
    /\ toxicity_results.is_toxic = <<>>

\* C4: a 503 from the inference endpoint yields the fixed 'Model is currently
\* loading' message, and no other failure of the request yields it.
C4_LoadingMessageIff503 ==
    /\ infResp.kind = "http" /\ infResp.status = 503 =>
          rephrased = [set |-> TRUE,
                       v |-> <<"Model is currently loading. Please try again in a moment.">>]
    /\ /\ rephrased.set
       /\ infResp.kind # "none"
       /\ rephrased.v = <<"Model is currently loading. Please try again in a moment.">>
       => infResp.kind = "http" /\ infResp.status = 503

C4_LoadingAnswered ==
    /\ infResp.kind = "http"
    /\ infResp.status = 503
    /\ rephrased.set
    /\ rephrased.v = MsgLoading

HasGeneratedTextField(x) ==
    x.t = "rec" /\ \E i \in 1..Len(x.keys) : x.keys[i] = "generated_text"

\* C5: a successful answer that is a non-empty list whose first element has no
\* generated_text field makes rephrase_text_api return the stringification of
\* that element (trimmed, as the code trims every value it returns), whatever
\* the element is.
C5_FallbackStringifiesFirst ==
    /\ infResp.kind = "http"
    /\ infResp.status = 200
    /\ infResp.body.t = "list"
    /\ Len(infResp.body.items) > 0
    /\ ~HasGeneratedTextField(infResp.body.items[1])
    => /\ rephrased.set
       /\ rephrased.v \in {PyStr(infResp.body.items[1]),
                           Strip(PyStr(infResp.body.items[1]))}

CallRank(c) ==
    CASE c = "whoami" -> 1
      [] c = "moderation" -> 2
      [] c = "inference" -> 3

\* C6 as stated: a press performs at most two requests, the moderation call
\* first and then at most one inference call.
C6_AtMostTwoCalls ==
    pc = "config" /\ analyze_button =>
        calls \in {<<>>, <<"moderation">>, <<"inference">>,
                   <<"moderation", "inference">>}

\* C6 amended: a press performs at most three requests, in this order and each
\* at most once: the Hugging Face token check exactly when a token is
\* configured, then the moderation call, then the inference call; no request
\* is repeated, so a failed one is never retried.
C6_AtMostThreeCallsInOrder ==
    /\ \A i, j \in 1..Len(calls) : i < j => CallRank(calls[i]) < CallRank(calls[j])
    /\ pc \in {"config", "handler"} /\ (pc = "config" => analyze_button) =>
          (InCalls("whoami") <=> HUGGING_FACE_TOKEN # "")

C6_ThreeCallsInOnePress ==
    /\ pc = "config"
    /\ analyze_button
    /\ calls = <<"whoami", "moderation", "inference">>

\* C7 as stated: the toxicity score field of a result, when present, lies in
\* [0,1].
C7_ScoreFieldInUnitInterval ==
    toxicity_results # NoResult /\ toxicity_results.toxicity_score # <<>> =>
        /\ toxicity_results.toxicity_score[1] >= 0
        /\ toxicity_results.toxicity_score[1] <= 1000

\* C7 amended: the toxicity_score field, when present, is the returned score
\* times 100 and lies in [0,100]; the raw_score field is the returned score and
\* lies in [0,1].
C7_ScoreFieldIsPercentage ==
    toxicity_results # NoResult /\ toxicity_results.toxicity_score # <<>> =>
        /\ toxicity_results.raw_score >= 0
        /\ toxicity_results.raw_score <= 1000
        /\ toxicity_results.toxicity_score[1] = 100 * toxicity_results.raw_score
        /\ toxicity_results.toxicity_score[1] >= 0
        /\ toxicity_results.toxicity_score[1] <= 100 * 1000
        /\ (modResp # NoResp => toxicity_results.raw_score = modResp.body.value)

C7_FullScoreIsHundred ==
    /\ toxicity_results # NoResult
    /\ toxicity_results.toxicity_score = <<100 * 1000>>
    /\ toxicity_results.raw_score = 1000

\* C8: within a script run the inference endpoint is called only when the
\* button was pressed on a non-empty text, the moderation lookup of the run
\* returned is_toxic = true, rephrasing is enabled and the token authenticated,
\* and only after the moderation request of that run.
C8_InferenceOnlyAfterToxic ==
    pc \in {"config", "login", "handler"} /\ (InCalls("inference") \/ infResp # NoResp) =>
        /\ analyze_button
        /\ text_to_analyze # ""
        /\ toxicity_results # NoResult
        /\ toxicity_results.is_toxic = <<TRUE>>
        /\ enable_rephrasing
        /\ authenticated_hf
        /\ calls[Len(calls)] = "inference"
        /\ \A i \in 1..(Len(calls) - 1) : calls[i] # "inference"

C8_InferenceAfterCachedToxic ==
    /\ pc = "config"
    /\ calls = <<"whoami", "inference">>
    /\ toxicity_results.is_toxic = <<TRUE>>

AnalyzeCalledInStep == toxicity_results = NoResult /\ toxicity_results' # NoResult

RephraseCalledInStep == ~rephrased.set /\ rephrased'.set

C9_Step ==
    /\ \A k \in DOMAIN toxCache : k \in DOMAIN toxCache' /\ toxCache'[k] = toxCache[k]
    /\ \A k \in DOMAIN rephCache : k \in DOMAIN rephCache' /\ rephCache'[k] = rephCache[k]
    /\ AnalyzeCalledInStep =>
          LET k == <<text_to_analyze', PERSPECTIVE_API_KEY'>>
          IN /\ k \in DOMAIN toxCache =>
                   /\ toxicity_results' = toxCache[k]
                   /\ modResp' = NoResp
                   /\ \A i \in 1..Len(calls') : calls'[i] # "moderation"
             /\ k \in DOMAIN toxCache'
             /\ toxCache'[k] = toxicity_results'
    /\ RephraseCalledInStep =>
          LET k == <<text_to_analyze', HUGGING_FACE_TOKEN'>>
          IN /\ k \in DOMAIN rephCache =>
                   /\ rephrased'.v = rephCache[k]
                   /\ infResp' = NoResp
                   /\ \A i \in 1..Len(calls') : calls'[i] # "inference"
             /\ k \in DOMAIN rephCache'
             /\ rephCache'[k] = rephrased'.v

\* C9: the two caches are keyed by (text, credential) and never lose or change
\* an entry; every value a call returns, an error value included, is stored,
\* and a later call with the same pair returns the stored value without a
\* request.
C9_CacheKeptAndServed == [][C9_Step]_vars

C9_ErrorServedFromCache ==
    /\ pc = "config"
    /\ analyze_button
    /\ toxicity_results # NoResult
    /\ toxicity_results.is_toxic = <<>>
    /\ toxicity_results.error = "API Request Timed Out"
    /\ modResp = NoResp
    /\ ~InCalls("moderation")

\* C10: once the login stage of a run is over, enable_rephrasing implies
\* authenticated_hf, and the handler never shows the warning 'Rephrasing was
\* enabled but Hugging Face authentication failed'.
C10_EnabledImpliesAuthenticated ==
    /\ pc \in {"handler", "config"} => (enable_rephrasing => authenticated_hf)
    /\ ~InUi("Rephrasing was enabled but Hugging Face authentication failed.")

C10_ToxicAfterFailedLogin ==
    /\ pc = "config"
    /\ InUi("Hugging Face authentication failed")
    /\ toxicity_results # NoResult
    /\ toxicity_results.is_toxic = <<TRUE>>
    /\ ~enable_rephrasing

====
